---- MODULE Spec2Model ----
(***************************************************************************)
(* Playback & cache engine of bloodin (src-tauri).                         *)
(*                                                                         *)
(*   SpecCache    : the disk cache (audio_cache.rs) driven through its     *)
(*                  public operations, one call at a time, together with   *)
(*                  the environment of the cache directory (external       *)
(*                  deletion, clock, process restart).                     *)
(*   SpecPlaySong : concurrent play_song requests (commands.rs) sharing    *)
(*                  the cache behind its tokio mutex.                      *)
(*   SpecPlayer   : the playback actor (audio_player.rs) handling one      *)
(*                  command or timer tick at a time.                       *)
(*   SpecSeek     : the actor playing cached files and seeking in them.    *)
(*   SpecControls : the actor's volume, shuffle, repeat and queue          *)
(*                  commands, which do not depend on the clock.            *)
(*   SpecQueue    : next_track and previous_track on a worker constructed  *)
(*                  with a queue.                                          *)
(*   SpecPosition : position tracking, with a clock that advances          *)
(*                  independently of the ticks.                            *)
(*   SpecEvents   : the actor and the receivers of its event channel.      *)
(*   SpecActor    : the run loop behind the command channel: sends,        *)
(*                  suspended PlayItem, ticks and Shutdown.                *)
(*   SpecStartup  : the cache constructed over a directory that earlier    *)
(*                  runs left behind, then lookups, stores and restarts.   *)
(*   SpecRequest  : one play_song request at a time, from its cache block  *)
(*                  through get_item_details to PlayItem and the retry.    *)
(*                                                                         *)
(* File names and song ids are sequences of tokens; the token EXT stands   *)
(* for the substring ".audio".                                             *)
(***************************************************************************)
EXTENDS Integers, Sequences, FiniteSets, TLC

\* AudioCache.max_entries (100 in audio_cache.rs:41), scaled down.
max_entries == 2
\* Largest value of the wall clock (seconds since the epoch).
MaxClock == 1

EXT == ".audio"
\* Song ids handed to the cache (play_song's item_id: any string).
SongIds == {<<"a">>, <<"b">>, <<"a", EXT>>}

\* format!("{}.audio", song_id)
FileName(song_id) == song_id \o <<EXT>>
\* file_name_str.ends_with(".audio")
EndsWithExt(name) == Len(name) > 0 /\ name[Len(name)] = EXT
\* file_name_str.replace(".audio", ""): removes every occurrence
SongIdOf(name) == SelectSeq(name, LAMBDA t : t # EXT)

FileNames == {FileName(id) : id \in SongIds}

NoPath == <<>>
NoRet == [tag |-> "None", path |-> NoPath]
Absent == -1

----------------------------------------------------------------------------
VARIABLES
    files,          \* cache directory: file name -> the timestamp its metadata
                    \* reports (the time it was written), Absent if no file
    entries,        \* AudioCache.entries: song id -> CacheEntry
    access_order,   \* AudioCache.access_order
    now,            \* SystemTime::now() in seconds
    loaded,         \* number of entries reconstructed by the last startup
    last,           \* the last operation: its argument, result and evictions
    lock,           \* AppState.audio_cache mutex: the task holding it, or NoTask
    pc,             \* play_song tasks: where each one is
    req,            \* play_song tasks: item_id and the cached path obtained
    worker,         \* AudioPlayerWorker
    time,           \* Instant::now() in milliseconds
    out,            \* events and replies sent by the last command or tick
    cmd,            \* the last command the actor handled and its result
    sent,           \* instants of the last PositionUpdate event and of the one
                    \* before it, NoInstant if there was none
    subs,           \* the broadcast channel of events and its receivers
    mailbox,        \* commands in the mpsc channel, oldest first
    bus             \* the run loop and the callers of the command channel

cacheVars == <<files, entries, access_order, now, loaded, last>>
taskVars == <<lock, pc, req>>
busVars == <<mailbox, bus>>
playerVars == <<worker, time, out, cmd, sent, subs, mailbox, bus>>
vars == <<files, entries, access_order, now, loaded, last,
          lock, pc, req, worker, time, out, cmd, sent, subs, mailbox, bus>>

----------------------------------------------------------------------------
(* Helpers on maps and sequences *)

Put(m, k, v) == [x \in DOMAIN m \cup {k} |-> IF x = k THEN v ELSE m[x]]
Drop(m, k) == [x \in DOMAIN m \ {k} |-> m[x]]
Range(s) == {s[i] : i \in 1..Len(s)}
Occurrences(s, x) == Cardinality({i \in 1..Len(s) : s[i] = x})
\* iter().position(|x| x == song_id), 0 when there is none
Position(s, x) ==
    IF x \in Range(s)
    THEN CHOOSE i \in 1..Len(s) : s[i] = x /\ \A j \in 1..(i - 1) : s[j] # x
    ELSE 0
\* VecDeque::remove(pos)
RemoveAt(s, i) == SubSeq(s, 1, i - 1) \o SubSeq(s, i + 1, Len(s))
\* the other elements of s in their order
Without(s, x) == SelectSeq(s, LAMBDA y : y # x)
Min(a, b) == IF a < b THEN a ELSE b
Max(a, b) == IF a > b THEN a ELSE b
Exists(fs, path) == path \in DOMAIN fs /\ fs[path] # Absent
Present(fs) == {f \in DOMAIN fs : fs[f] # Absent}

\* The in-memory cache and its directory as one value
Cache == [entries |-> entries, access_order |-> access_order, files |-> files]
EmptyCache(fs) == [entries |-> <<>>, access_order |-> <<>>, files |-> fs]
MinTime(es) == CHOOSE t \in {es[k].last_accessed : k \in DOMAIN es} :
                   \A k \in DOMAIN es : t <= es[k].last_accessed

----------------------------------------------------------------------------
(* audio_cache.rs *)

\* remove_entry: failDel is the set of files whose fs::remove_file fails
remove_entry(c, song_id, failDel) ==
    LET had  == song_id \in DOMAIN c.entries
        path == IF had THEN c.entries[song_id].file_path ELSE NoPath
        pos  == Position(c.access_order, song_id)
    IN  [entries      |-> IF had THEN Drop(c.entries, song_id) ELSE c.entries,
         files        |-> IF had /\ Exists(c.files, path) /\ path \notin failDel
                          THEN [c.files EXCEPT ![path] = Absent]
                          ELSE c.files,
         access_order |-> IF pos > 0 THEN RemoveAt(c.access_order, pos)
                          ELSE c.access_order]

update_access_time(c, song_id, t) ==
    LET pos == Position(c.access_order, song_id)
        es  == IF song_id \in DOMAIN c.entries
               THEN [c.entries EXCEPT ![song_id].last_accessed = t]
               ELSE c.entries
        ao  == IF pos > 0 THEN RemoveAt(c.access_order, pos) ELSE c.access_order
    IN  [entries |-> es, files |-> c.files, access_order |-> Append(ao, song_id)]

\* ensure_cache_size that never evicts
ensure_cache_size_no_evict(c, failDel) == c

RECURSIVE ensure_cache_size(_, _)
ensure_cache_size(c, failDel) ==
    IF Cardinality(DOMAIN c.entries) >= max_entries /\ c.access_order # <<>>
    THEN LET oldest_id == Head(c.access_order)
             popped == [c EXCEPT !.access_order = Tail(c.access_order)]
         IN  ensure_cache_size(remove_entry(popped, oldest_id, failDel), failDel)
    ELSE c

\* The entries ensure_cache_size evicts, in order, each with its timestamp and
\* the smallest timestamp in the index at that moment.
RECURSIVE evictions(_, _)
evictions(c, failDel) ==
    IF Cardinality(DOMAIN c.entries) >= max_entries /\ c.access_order # <<>>
    THEN LET oldest_id == Head(c.access_order)
             popped == [c EXCEPT !.access_order = Tail(c.access_order)]
             ev == IF oldest_id \in DOMAIN c.entries
                   THEN <<[id |-> oldest_id,
                           ts |-> c.entries[oldest_id].last_accessed,
                           min |-> MinTime(c.entries)]>>
                   ELSE <<>>
         IN  ev \o evictions(remove_entry(popped, oldest_id, failDel), failDel)
    ELSE <<>>

\* get_cached_path: the cache afterwards and the returned Option<PathBuf>
get_cached_path(c, song_id, t, failDel) ==
    IF song_id \in DOMAIN c.entries
       /\ Exists(c.files, c.entries[song_id].file_path)
    THEN [cache |-> update_access_time(c, song_id, t),
          ret   |-> [tag |-> "Some", path |-> c.entries[song_id].file_path]]
    ELSE IF song_id \in DOMAIN c.entries
    THEN [cache |-> remove_entry(c, song_id, failDel),
          ret   |-> [tag |-> "None", path |-> NoPath]]
    ELSE [cache |-> c, ret |-> [tag |-> "None", path |-> NoPath]]

\* Outcomes of the download and of the file operations of cache_audio
\*   "ok"            every step succeeds
\*   "request_error" send() fails, the status is not a success, or
\*                   File::create fails: the error is returned with no file
\*   "write_error"   bytes(), write_all, flush or metadata fails after
\*                   File::create: the error is returned and the file stays
StoreOutcomes == {"ok", "request_error", "write_error"}
\* outcomes in which File::create has run and succeeded
FileCreated == {"ok", "write_error"}

\* a cache_audio that does not look the id up before it makes room
cache_audio_begin_no_recheck(c, song_id, t, failDel) ==
    [cache |-> ensure_cache_size(c, failDel), done |-> FALSE,
     ret |-> NoRet, evicted |-> evictions(c, failDel)]

\* cache_audio up to the download (lines 122-131): the lookup and the eviction
cache_audio_begin(c, song_id, t, failDel) ==
    LET hit == get_cached_path(c, song_id, t, failDel)
    IN  IF hit.ret.tag = "Some"
        THEN [cache |-> hit.cache, done |-> TRUE,
              ret |-> [tag |-> "Ok", path |-> hit.ret.path], evicted |-> <<>>]
        ELSE [cache |-> ensure_cache_size(hit.cache, failDel), done |-> FALSE,
              ret |-> NoRet, evicted |-> evictions(hit.cache, failDel)]

\* cache_audio from the download on (lines 133-169)
cache_audio_finish(c, song_id, t, outcome) ==
    LET file_path == FileName(song_id)
        written   == IF outcome \in FileCreated
                     THEN [c EXCEPT !.files[file_path] = t]
                     ELSE c
    IN  IF outcome = "ok"
        THEN [cache |-> [written EXCEPT
                           !.entries = Put(written.entries, song_id,
                                           [file_path |-> file_path,
                                            last_accessed |-> t]),
                           !.access_order = Append(written.access_order, song_id)],
              ret |-> [tag |-> "Ok", path |-> file_path]]
        ELSE [cache |-> written, ret |-> [tag |-> "Err", path |-> NoPath]]

\* a cache_audio that goes to ensure_cache_size without looking the id up
cache_audio_no_recheck(c, song_id, t, outcome, failDel) ==
    LET f == cache_audio_finish(ensure_cache_size(c, failDel), song_id, t, outcome)
    IN  [cache |-> f.cache, ret |-> f.ret, evicted |-> evictions(c, failDel)]
\* cache_audio at clock t (the time a download takes is a ClockTick before it)
cache_audio(c, song_id, t, outcome, failDel) ==
    LET b == cache_audio_begin(c, song_id, t, failDel)
    IN  IF b.done
        THEN [cache |-> b.cache, ret |-> b.ret, evicted |-> <<>>]
        ELSE LET f == cache_audio_finish(b.cache, song_id, t, outcome)
             IN  [cache |-> f.cache, ret |-> f.ret, evicted |-> b.evicted]

\* clear_cache: remove_entry for every key of a copy of the index
RECURSIVE clear_keys(_, _, _)
clear_keys(c, keys, failDel) ==
    IF keys = {} THEN c
    ELSE LET k == CHOOSE x \in keys : TRUE
         IN  clear_keys(remove_entry(c, k, failDel), keys \ {k}, failDel)
clear_cache(c, failDel) == clear_keys(c, DOMAIN c.entries, failDel)

\* slice::sort_by (stable) of the access order by the entries' last_accessed
SortKey(es, id) == IF id \in DOMAIN es THEN es[id].last_accessed ELSE 0
RECURSIVE sort_by(_, _)
sort_by(s, es) ==
    IF s = <<>> THEN <<>>
    ELSE LET front == sort_by(SubSeq(s, 1, Len(s) - 1), es)
             x     == s[Len(s)]
             n     == Cardinality({i \in 1..Len(front) :
                                     SortKey(es, front[i]) <= SortKey(es, x)})
         IN  SubSeq(front, 1, n) \o <<x>> \o SubSeq(front, n + 1, Len(front))

\* the loop of load_existing_entries over the directory listing
RECURSIVE scan_dir(_, _)
scan_dir(listing, c) ==
    IF listing = <<>> THEN c
    ELSE LET path == Head(listing)
         IN  IF EndsWithExt(path)
             THEN LET song_id == SongIdOf(path)
                  IN  scan_dir(Tail(listing),
                               [c EXCEPT
                                  !.entries = Put(c.entries, song_id,
                                                  [file_path |-> path,
                                                   last_accessed |-> c.files[path]]),
                                  !.access_order = Append(c.access_order, song_id)])
             ELSE scan_dir(Tail(listing), c)

\* AudioCache::new + load_existing_entries; listing is fs::read_dir's order
load_existing_entries(listing, fs) ==
    LET c == scan_dir(listing, EmptyCache(fs))
    IN  [c EXCEPT !.access_order = sort_by(c.access_order, c.entries)]

\* the orders in which fs::read_dir may list the files
Listings(S) == {s \in [1..Cardinality(S) -> S] :
                  \A i, j \in 1..Cardinality(S) : i # j => s[i] # s[j]}

----------------------------------------------------------------------------
(* audio_player.rs: the playback actor.  Positions, durations and instants  *)
(* are in milliseconds; the volume is in percent.                           *)

\* tokio::time::interval(Duration::from_millis(250))
TickMs == 250
\* PositionUpdate is sent when at least 500 ms have passed since the last one
RateLimitMs == 500
\* duration_ticks are 100 ns units: ticks / 10_000_000 seconds
TicksPerMs == 10000
\* PlaybackState.volume = 0.7 at start
InitialVolume == 70

\* Number of clock steps (of one tick interval each) a behaviour may take
MaxSteps == 3
\* The duration hint (duration_ticks) some items carry: 0.5 s
HintTicks == 5000000
\* The duration some containers declare (n_frames / sample_rate), in ms
ContainerMs == 750

\* Number of tick intervals the clock runs for in SpecPosition
MaxTicks == 4
\* Longest queue the worker is constructed with
MaxQueue == 3

NoInstant == -1
NoTicks == -1
\* current_index: None
NoIndex == -1
\* no position recorded
NoMark == -1000000
NoSong == <<>>
NoData == [song |-> NoSong, src |-> "none", valid |-> FALSE, dur |-> 0]
NoSink == [live |-> FALSE, paused |-> FALSE, song |-> NoSong, volume |-> 0]
NoItem == [id |-> NoSong, duration_ticks |-> NoTicks, stream_url |-> "none"]

\* The ids and items play_song hands to the actor: stream_url is either the
\* cached file ("file://<path>") or the remote stream ("http://...").
PlayerIds == {<<"a">>, <<"b">>}
Schemes == {"file://", "http://"}
\* song_details.runtime_ticks of each song: one song has it, the other has none
RuntimeTicks(id) == IF id = <<"a">> THEN HintTicks ELSE NoTicks
Items == {[id |-> i, duration_ticks |-> RuntimeTicks(i), stream_url |-> u] :
             i \in PlayerIds, u \in Schemes}

\* the items of cached songs
QueueItems == {[id |-> i, duration_ticks |-> RuntimeTicks(i),
                stream_url |-> "file://"] : i \in PlayerIds}

\* What the world answers to one PlayItem or Seek:
\*   fetched : the read of the file or the download succeeds
\*   valid   : the bytes obtained can be probed and decoded
\*   dur     : the duration the container declares (0 when it declares none)
\*   sink_ok : Sink::try_new succeeds
\*   seek_ok : the format reader's seek succeeds
World(fetched, valid, dur, sink_ok, seek_ok) ==
    [fetched |-> fetched, valid |-> valid, dur |-> dur,
     sink_ok |-> sink_ok, seek_ok |-> seek_ok]
\* the answers that differ for a PlayItem: a failed fetch, undecodable bytes,
\* and decodable bytes with or without a declared duration and with or
\* without an output sink
PlayWorlds ==
    {World(FALSE, FALSE, 0, TRUE, TRUE), World(TRUE, FALSE, 0, TRUE, TRUE)}
    \cup {World(TRUE, TRUE, d, k, TRUE) : d \in {0, ContainerMs}, k \in BOOLEAN}
\* the answers that differ for the native attempt of a Seek, which reads the
\* buffered bytes: the reader's seek and the new sink
SeekWorlds == {World(TRUE, TRUE, 0, TRUE, TRUE), World(TRUE, TRUE, 0, FALSE, TRUE),
               World(TRUE, TRUE, 0, TRUE, FALSE)}
\* the answers to the restart of the fallback
RetryWorlds == PlayWorlds \cup {World(TRUE, TRUE, ContainerMs, TRUE, FALSE)}
\* the positions the caller seeks to (seek_to passes any f64)
SeekPositions == {0 - TickMs, 0, TickMs}
\* the volumes the caller sets, in percent (set_volume passes any finite f32)
VolumeInputs == {0 - 50, 50, 150}

\* PlayerEvent and the replies on the oneshot channels
TrackChanged(item) == [type |-> "TrackChanged", item |-> item]
StateChanged(st) == [type |-> "StateChanged", state |-> st]
PositionUpdate(pos) == [type |-> "PositionUpdate", pos |-> pos]
Reply(res) == [type |-> "Reply", result |-> res]
StateReply(st) == [type |-> "StateReply", state |-> st]

\* The event channel: broadcast::channel(100) in AudioPlayer::new, scaled down.
\* A value sent gets the next position; the channel retains the last
\* BroadcastCapacity values that some live receiver has still to read.
BroadcastCapacity == 2
\* Largest position a value gets in the event channel.
MaxEvents == 4
Subscribers == {"s1", "s2"}
NoValue == [pos |-> 0 - 1, event |-> "none"]
\* a receiver: not yet created, live or dropped
\*   next   : the position of the value its next recv returns
\*   from   : the tail of the channel when it subscribed
\*   got    : the value its last successful recv returned
\*   lagged : its last recv returned RecvError::Lagged
NoReceiver ==
    [status |-> "none", next |-> 0, from |-> 0, got |-> NoValue, lagged |-> FALSE]
DroppedReceiver == [NoReceiver EXCEPT !.status = "dropped"]
InitChannel ==
    [tail |-> 0, buffer |-> <<>>, rx |-> [s \in Subscribers |-> NoReceiver]]
\* the events among what a command sends (the rest are replies)
Events(o) == SelectSeq(o, LAMBDA e : e.type \notin {"Reply", "StateReply"})
Last(q, n) == IF Len(q) <= n THEN q ELSE SubSeq(q, Len(q) - n + 1, Len(q))
Live(ch) == {s \in Subscribers : ch.rx[s].status = "live"}
\* the position of the oldest value the channel can still hold
oldest(ch) == Max(0, ch.tail - BroadcastCapacity)
\* a value is released once every live receiver has read it
retain(ch) ==
    [ch EXCEPT !.buffer =
        SelectSeq(@, LAMBDA v : \E s \in Live(ch) : v.pos >= ch.rx[s].next)]
\* broadcast::Sender::send: Err(SendError) and nothing stored when there is no
\* receiver, else the value overwrites the oldest one; it never waits
send(ch, e) ==
    IF Live(ch) = {} THEN ch
    ELSE [ch EXCEPT !.buffer = Last(Append(@, [pos |-> ch.tail, event |-> e]),
                                    BroadcastCapacity),
                    !.tail = @ + 1]
RECURSIVE send_all(_, _)
send_all(ch, events) ==
    IF events = <<>> THEN ch
    ELSE send_all(send(ch, Head(events)), Tail(events))
\* broadcast::Sender::subscribe: the new receiver starts at the tail
subscribe(ch, s) ==
    [ch EXCEPT !.rx[s] = [NoReceiver EXCEPT !.status = "live",
                                            !.next = ch.tail,
                                            !.from = ch.tail]]
\* the receiver has something to be told: a value or that it lagged
Ready(ch, s) == ch.rx[s].status = "live" /\ ch.rx[s].next < ch.tail
\* broadcast::Receiver::recv when Ready: Err(Lagged) moves the receiver to the
\* oldest retained value, else the value at `next` is returned
recv(ch, s) ==
    LET r == ch.rx[s]
    IN  IF r.next < oldest(ch)
        THEN [ch EXCEPT !.rx[s].next = oldest(ch), !.rx[s].lagged = TRUE]
        ELSE retain([ch EXCEPT
                 !.rx[s].got = CHOOSE v \in Range(ch.buffer) : v.pos = r.next,
                 !.rx[s].next = @ + 1,
                 !.rx[s].lagged = FALSE])
\* drop of a Receiver
drop_receiver(ch, s) == retain([ch EXCEPT !.rx[s] = DroppedReceiver])

\* The command channel (mpsc::unbounded_channel) and the run loop.
\* Largest number of commands the callers send.
MaxCommands == 3
NoCommand == [id |-> 0, type |-> "none", item |-> NoItem]
\* the loop waits in select! and nothing was sent
\*   phase   : "idle" (in select!), "loading" (inside play_item().await),
\*             "exited" (after break), "dropped" (the worker is dropped)
\*   n       : commands sent so far; a command's id is its rank
\*   taken   : id of the last command recv() returned
\*   current : the command being handled
\*   handled : types of the last two commands whose handling finished
\*   waiting : ids of the callers awaiting a oneshot reply
\*   lost    : ids of the callers whose await returned RecvError
\*   send    : result of the last command_sender.send
InitBus ==
    [phase |-> "idle", n |-> 0, taken |-> 0, current |-> NoCommand,
     handled |-> <<"none", "none">>, waiting |-> {}, lost |-> {},
     send |-> "none"]
\* a recv() that returns the command sent last
command_recv_last(q) ==
    [command |-> q[Len(q)], rest |-> SubSeq(q, 1, Len(q) - 1)]
\* mpsc::UnboundedReceiver::recv: the oldest command
command_recv(q) == [command |-> Head(q), rest |-> Tail(q)]
\* the commands that carry a oneshot response sender
Awaited == {"PlayItem", "GetState"}

\* AudioPlayerWorker as AudioPlayer::new builds it at instant t
InitWorker(t) ==
    [sink |-> NoSink,
     state |-> [is_playing |-> FALSE, current_position |-> 0, duration |-> 0,
                volume |-> InitialVolume, is_shuffled |-> FALSE,
                repeat_mode |-> "None", current_song |-> NoItem],
     last_position_update |-> t,
     audio_start_time |-> NoInstant,
     visual_position |-> 0,
     cached_audio_data |-> NoData,
     cached_song_id |-> NoSong,
     queue |-> <<>>,
     current_index |-> NoIndex]

\* the two events in the opposite order
PlayEventsSwapped(item, st) == <<StateChanged(st), TrackChanged(item)>>
\* the events play_item_with_offset emits on success (lines 547-549)
PlayEvents(item, st) == <<TrackChanged(item), StateChanged(st)>>

\* SymphoniaSource::seek_to_time: TRUE when it returns Ok
seek_to_time(time_seconds, world) == time_seconds <= 0 \/ world.seek_ok

\* play_item_with_offset at instant t: the worker afterwards, the result and
\* the events emitted
play_item_with_offset(w, item, offset_seconds, world, t) ==
    LET use_cached == w.cached_song_id = item.id /\ w.cached_audio_data # NoData
        fetched    == [song |-> item.id, src |-> item.stream_url,
                       valid |-> world.valid, dur |-> world.dur]
        audio_data == IF use_cached THEN w.cached_audio_data ELSE fetched
        \* the bytes are kept for later seeks as soon as they are read
        w1 == IF use_cached THEN w
              ELSE [w EXCEPT !.cached_audio_data = fetched,
                             !.cached_song_id = item.id]
        duration == IF item.duration_ticks # NoTicks
                    THEN item.duration_ticks \div TicksPerMs
                    ELSE audio_data.dur
        sink == [live |-> TRUE, paused |-> FALSE, song |-> audio_data.song,
                 volume |-> w.state.volume]
        st == [w.state EXCEPT !.is_playing = ~sink.paused,
                              !.current_position = offset_seconds,
                              !.duration = duration,
                              !.current_song = item]
    IN  IF ~use_cached /\ ~world.fetched
        THEN [w |-> w, result |-> "Err", events |-> <<>>]
        ELSE IF ~audio_data.valid
        THEN [w |-> w1, result |-> "Err", events |-> <<>>]
        ELSE IF offset_seconds > 0 /\ ~seek_to_time(offset_seconds, world)
        THEN [w |-> w1, result |-> "Err", events |-> <<>>]
        ELSE IF ~world.sink_ok
        THEN [w |-> w1, result |-> "Err", events |-> <<>>]
        ELSE [w |-> [w1 EXCEPT !.state = st,
                               !.audio_start_time = t,
                               !.visual_position = offset_seconds,
                               !.sink = sink],
              result |-> "Ok",
              events |-> PlayEvents(item, st)]

\* a play_item that also puts the item at the end of the queue
play_item_enqueues(w, item, world, t) ==
    LET w0 == IF w.cached_song_id # item.id
              THEN [w EXCEPT !.cached_audio_data = NoData, !.cached_song_id = NoSong]
              ELSE w
        r  == play_item_with_offset(w0, item, 0, world, t)
    IN  [r EXCEPT !.w.queue = Append(@, item),
                  !.w.current_index = Len(w.queue)]
\* play_item: forget the buffered bytes of another song, then play from 0
play_item(w, item, world, t) ==
    LET w0 == IF w.cached_song_id # item.id
              THEN [w EXCEPT !.cached_audio_data = NoData, !.cached_song_id = NoSong]
              ELSE w
    IN  play_item_with_offset(w0, item, 0, world, t)

\* an update_position that finishes a track only after its duration has passed
update_position_strict(w, t) ==
    IF w.audio_start_time # NoInstant /\ w.state.is_playing
    THEN LET elapsed      == t - w.audio_start_time
             new_position == w.visual_position + elapsed
         IN  IF w.state.duration > 0 /\ new_position > w.state.duration
             THEN LET st == [w.state EXCEPT !.current_position = w.state.duration,
                                            !.is_playing = FALSE]
                  IN  [w |-> [w EXCEPT !.state = st, !.audio_start_time = NoInstant],
                       events |-> <<StateChanged(st)>>]
             ELSE LET st == [w.state EXCEPT !.current_position = new_position]
                  IN  IF t - w.last_position_update >= RateLimitMs
                      THEN [w |-> [w EXCEPT !.state = st, !.last_position_update = t],
                            events |-> <<PositionUpdate(new_position), StateChanged(st)>>]
                      ELSE [w |-> [w EXCEPT !.state = st], events |-> <<>>]
    ELSE [w |-> w, events |-> <<>>]
\* an update_position that sends PositionUpdate every time
update_position_unlimited(w, t) ==
    IF w.audio_start_time # NoInstant /\ w.state.is_playing
    THEN LET elapsed      == t - w.audio_start_time
             new_position == w.visual_position + elapsed
         IN  IF w.state.duration > 0 /\ new_position >= w.state.duration
             THEN LET st == [w.state EXCEPT !.current_position = w.state.duration,
                                            !.is_playing = FALSE]
                  IN  [w |-> [w EXCEPT !.state = st, !.audio_start_time = NoInstant],
                       events |-> <<StateChanged(st)>>]
             ELSE LET st == [w.state EXCEPT !.current_position = new_position]
                  IN  [w |-> [w EXCEPT !.state = st, !.last_position_update = t],
                       events |-> <<PositionUpdate(new_position), StateChanged(st)>>]
    ELSE [w |-> w, events |-> <<>>]
\* update_position at instant t
update_position(w, t) ==
    IF w.audio_start_time # NoInstant /\ w.state.is_playing
    THEN LET elapsed      == t - w.audio_start_time
             new_position == w.visual_position + elapsed
         IN  IF w.state.duration > 0 /\ new_position >= w.state.duration
             THEN LET st == [w.state EXCEPT !.current_position = w.state.duration,
                                            !.is_playing = FALSE]
                  IN  [w |-> [w EXCEPT !.state = st, !.audio_start_time = NoInstant],
                       events |-> <<StateChanged(st)>>]
             ELSE LET st == [w.state EXCEPT !.current_position = new_position]
                  IN  IF t - w.last_position_update >= RateLimitMs
                      THEN [w |-> [w EXCEPT !.state = st, !.last_position_update = t],
                            events |-> <<PositionUpdate(new_position), StateChanged(st)>>]
                      ELSE [w |-> [w EXCEPT !.state = st], events |-> <<>>]
    ELSE [w |-> w, events |-> <<>>]

\* a pause that leaves the position clock running
pause_keeps_clock(w, t) ==
    IF w.sink.live
    THEN LET u == update_position([w EXCEPT !.sink.paused = TRUE], t)
         IN  [w |-> u.w, events |-> u.events \o <<StateChanged(u.w.state)>>]
    ELSE [w |-> w, events |-> <<>>]
\* pause at instant t
pause(w, t) ==
    IF w.sink.live
    THEN LET u  == update_position([w EXCEPT !.sink.paused = TRUE], t)
             st == [u.w.state EXCEPT !.is_playing = FALSE]
         IN  [w |-> [u.w EXCEPT !.state = st, !.audio_start_time = NoInstant],
              events |-> u.events \o <<StateChanged(st)>>]
    ELSE [w |-> w, events |-> <<>>]

\* a resume that starts counting from 0
resume_from_start(w, t) ==
    IF w.sink.live
    THEN LET st == [w.state EXCEPT !.is_playing = TRUE]
         IN  [w |-> [w EXCEPT !.sink.paused = FALSE,
                              !.state = st,
                              !.audio_start_time = t,
                              !.visual_position = 0],
              events |-> <<StateChanged(st)>>]
    ELSE [w |-> w, events |-> <<>>]
\* a resume that does not look for the sink
resume_unguarded(w, t) ==
    LET st == [w.state EXCEPT !.is_playing = TRUE]
    IN  [w |-> [w EXCEPT !.state = st,
                         !.audio_start_time = t,
                         !.visual_position = w.state.current_position],
         events |-> <<StateChanged(st)>>]
\* resume at instant t
resume(w, t) ==
    IF w.sink.live
    THEN LET st == [w.state EXCEPT !.is_playing = TRUE]
         IN  [w |-> [w EXCEPT !.sink.paused = FALSE,
                              !.state = st,
                              !.audio_start_time = t,
                              !.visual_position = w.state.current_position],
              events |-> <<StateChanged(st)>>]
    ELSE [w |-> w, events |-> <<>>]

\* seek to `position` at instant t.  `world` answers the native attempt and
\* `retry` answers the restart of the fallback.  result is "none" when no
\* track is loaded.
seek_fallback_keeps_playing(w, was_playing, position, retry, t) ==
    LET r == play_item_with_offset([w EXCEPT !.sink = NoSink],
                                   w.state.current_song, position, retry, t)
    IN  IF r.result = "Err" THEN r
        ELSE [w |-> r.w, result |-> "Ok",
              events |-> r.events \o <<StateChanged(r.w.state)>>]
\* lines 768-793: drop the sink, restart the current track at the offset and
\* pause it again if it was paused
seek_fallback(w, was_playing, position, retry, t) ==
    LET r == play_item_with_offset([w EXCEPT !.sink = NoSink],
                                   w.state.current_song, position, retry, t)
        st == [r.w.state EXCEPT !.is_playing = FALSE]
        w2 == IF ~was_playing /\ r.w.sink.live
              THEN [r.w EXCEPT !.sink.paused = TRUE,
                               !.state = st,
                               !.audio_start_time = NoInstant]
              ELSE r.w
    IN  IF r.result = "Err" THEN r
        ELSE [w |-> w2, result |-> "Ok",
              events |-> r.events \o <<StateChanged(w2.state)>>]

\* lines 711-766: a new source over the buffered bytes, sought natively, in a
\* new sink; TRUE when every step succeeds
seek_native_ok(w, position, world) ==
    /\ w.cached_audio_data # NoData
    /\ w.cached_audio_data.valid
    /\ seek_to_time(position, world)
    /\ world.sink_ok

\* a native seek that leaves the anchor of the position where it was
seek_keeps_anchor(w, position, world, retry, t) ==
    LET was_playing == w.state.is_playing
        st   == [w.state EXCEPT !.current_position = position]
        sink == [live |-> TRUE, paused |-> ~was_playing,
                 song |-> w.cached_audio_data.song, volume |-> w.state.volume]
    IN  IF w.state.current_song = NoItem
        THEN [w |-> w, result |-> "none", events |-> <<>>]
        ELSE IF seek_native_ok(w, position, world)
        THEN [w |-> [w EXCEPT !.sink = sink, !.state = st],
              result |-> "Ok",
              events |-> <<StateChanged(st)>>]
        ELSE seek_fallback(w, was_playing, position, retry, t)
seek(w, position, world, retry, t) ==
    LET was_playing == w.state.is_playing
        st   == [w.state EXCEPT !.current_position = position,
                                !.is_playing = was_playing]
        sink == [live |-> TRUE, paused |-> ~was_playing,
                 song |-> w.cached_audio_data.song, volume |-> w.state.volume]
    IN  IF w.state.current_song = NoItem
        THEN [w |-> w, result |-> "none", events |-> <<>>]
        ELSE IF seek_native_ok(w, position, world)
        THEN [w |-> [w EXCEPT !.sink = sink,
                              !.state = st,
                              !.visual_position = position,
                              !.audio_start_time =
                                  IF was_playing THEN t ELSE NoInstant],
              result |-> "Ok",
              events |-> <<StateChanged(st)>>]
        ELSE seek_fallback(w, was_playing, position, retry, t)

\* f32::clamp(0.0, 1.0), in percent
clamp(v) == IF v < 0 THEN 0 ELSE IF v > 100 THEN 100 ELSE v
\* a set_volume that stores the value as given
set_volume_unclamped(w, volume) ==
    LET st == [w.state EXCEPT !.volume = volume]
    IN  [w |-> [w EXCEPT !.state = st,
                         !.sink.volume = IF w.sink.live THEN volume ELSE @],
         events |-> <<StateChanged(st)>>]
\* set_volume
set_volume(w, volume) ==
    LET clamped_volume == clamp(volume)
        st == [w.state EXCEPT !.volume = clamped_volume]
    IN  [w |-> [w EXCEPT !.state = st,
                         !.sink.volume = IF w.sink.live THEN clamped_volume ELSE @],
         events |-> <<StateChanged(st)>>]

\* toggle_shuffle
toggle_shuffle(w) ==
    LET st == [w.state EXCEPT !.is_shuffled = ~@]
    IN  [w |-> [w EXCEPT !.state = st], events |-> <<StateChanged(st)>>]

\* set_repeat_mode
RepeatModes == {"None", "One", "All"}
set_repeat_mode(w, mode) ==
    LET st == [w.state EXCEPT !.repeat_mode = mode]
    IN  [w |-> [w EXCEPT !.state = st], events |-> <<StateChanged(st)>>]

\* a next_track that never wraps
next_index_no_wrap(w) ==
    IF w.current_index = NoIndex THEN 0
    ELSE IF w.current_index + 1 >= Len(w.queue) THEN NoIndex
    ELSE w.current_index + 1
\* the index next_track moves to (lines 653-666), NoIndex for None
next_index(w) ==
    IF w.current_index = NoIndex THEN 0
    ELSE IF w.current_index + 1 >= Len(w.queue)
    THEN (IF w.state.repeat_mode = "All" THEN 0 ELSE NoIndex)
    ELSE w.current_index + 1
\* a previous_track that never wraps
prev_index_no_wrap(w) ==
    IF w.current_index = NoIndex THEN Len(w.queue) - 1
    ELSE IF w.current_index = 0 THEN NoIndex
    ELSE w.current_index - 1
\* the index previous_track moves to (lines 681-694)
prev_index(w) ==
    IF w.current_index = NoIndex THEN Len(w.queue) - 1
    ELSE IF w.current_index = 0
    THEN (IF w.state.repeat_mode = "All" THEN Len(w.queue) - 1 ELSE NoIndex)
    ELSE w.current_index - 1

\* lines 668-673 / 696-701: queue.get(index), then set the index and play;
\* the result of play_item is dropped
play_index(w, index, world, t) ==
    IF index # NoIndex /\ index < Len(w.queue)
    THEN LET r == play_item([w EXCEPT !.current_index = index],
                            w.queue[index + 1], world, t)
         IN  [w |-> r.w, events |-> r.events]
    ELSE [w |-> w, events |-> <<>>]

next_track(w, world, t) ==
    IF w.queue = <<>> THEN [w |-> w, events |-> <<>>]
    ELSE play_index(w, next_index(w), world, t)

previous_track(w, world, t) ==
    IF w.queue = <<>> THEN [w |-> w, events |-> <<>>]
    ELSE play_index(w, prev_index(w), world, t)

\* a stop that keeps the buffered bytes
stop_keeps_buffer(w) ==
    LET st == [w.state EXCEPT !.is_playing = FALSE,
                              !.current_position = 0,
                              !.current_song = NoItem]
    IN  [w |-> [w EXCEPT !.sink = NoSink,
                         !.state = st,
                         !.audio_start_time = NoInstant,
                         !.visual_position = 0],
         events |-> <<StateChanged(st), TrackChanged(NoItem)>>]
\* a stop that leaves audio_start_time as it was
stop_keeps_anchor(w) ==
    LET st == [w.state EXCEPT !.is_playing = FALSE,
                              !.current_position = 0,
                              !.current_song = NoItem]
    IN  [w |-> [w EXCEPT !.sink = NoSink,
                         !.state = st,
                         !.visual_position = 0,
                         !.cached_audio_data = NoData,
                         !.cached_song_id = NoSong],
         events |-> <<StateChanged(st), TrackChanged(NoItem)>>]
\* stop
stop(w) ==
    LET st == [w.state EXCEPT !.is_playing = FALSE,
                              !.current_position = 0,
                              !.current_song = NoItem]
    IN  [w |-> [w EXCEPT !.sink = NoSink,
                         !.state = st,
                         !.audio_start_time = NoInstant,
                         !.visual_position = 0,
                         !.cached_audio_data = NoData,
                         !.cached_song_id = NoSong],
         events |-> <<StateChanged(st), TrackChanged(NoItem)>>]

----------------------------------------------------------------------------
(* State machines *)

Op(kind, id, ret, evicted) ==
    [op |-> kind, id |-> id, ret |-> ret, evicted |-> evicted]
\* the last command: its argument and result, and what the properties need
\* to remember of the commands before it
\*   pos  : the position of a Seek
\*   mark : current_position right after the Pause that began the present
\*          paused interval
\*   run  : how many NextTrack commands in a row this one ends
\*   from : current_index before the first of them
Cmd(type, item, result) ==
    [type |-> type, item |-> item, result |-> result,
     pos |-> NoMark, mark |-> NoMark, run |-> 0, from |-> NoIndex]

\* the files the index refers to: the ones a removal may fail to delete
Referenced == {entries[k].file_path : k \in DOMAIN entries}

Install(c) ==
    /\ entries' = c.entries
    /\ access_order' = c.access_order
    /\ files' = c.files

\* play_song requests running at the same time
Tasks == {"t1", "t2"}
NoTask == "none"
\* a lock() that returns while another task holds the guard
CanLockAlways(l) == TRUE
\* tokio::sync::Mutex::lock().await returns once the mutex is free
CanLock(l) == l = NoTask
\* the task holds the MutexGuard of the cache
InCriticalSection(t) == pc[t] \in {"lookup", "store_begin", "downloading"}

\* first start of the application: AppState::new with an empty cache directory
Init ==
    /\ files = [f \in FileNames |-> Absent]
    /\ entries = <<>>
    /\ access_order = <<>>
    /\ now = 0
    /\ loaded = 0
    /\ last = Op("new", <<>>, NoRet, <<>>)
    /\ lock = NoTask
    /\ pc = [t \in Tasks |-> "idle"]
    /\ req = [t \in Tasks |-> [item_id |-> NoSong, cached |-> NoRet]]
    /\ worker = InitWorker(0)
    /\ time = 0
    /\ out = <<>>
    /\ cmd = Cmd("none", NoItem, "none")
    /\ sent = [last |-> NoInstant, prev |-> NoInstant]
    /\ subs = InitChannel
    /\ mailbox = <<>>
    /\ bus = InitBus

(* The cache, one call at a time *)

\* lookup: AudioCache::get_cached_path
Lookup ==
    \E id \in SongIds, failDel \in {{}, Referenced} :
        LET r == get_cached_path(Cache, id, now, failDel)
        IN  /\ Install(r.cache)
            /\ last' = Op("lookup", id, r.ret, <<>>)
            /\ UNCHANGED <<now, loaded, taskVars, playerVars>>

\* store: AudioCache::cache_audio
Store ==
    \E id \in SongIds, outcome \in StoreOutcomes, failDel \in SUBSET Referenced :
        LET r == cache_audio(Cache, id, now, outcome, failDel)
        IN  /\ Install(r.cache)
            /\ last' = Op("store", id, r.ret, r.evicted)
            /\ UNCHANGED <<now, loaded, taskVars, playerVars>>

\* clear: AudioCache::clear_cache
Clear ==
    \E failDel \in SUBSET Referenced :
        /\ Install(clear_cache(Cache, failDel))
        /\ last' = Op("clear", <<>>, [tag |-> "Ok", path |-> NoPath], <<>>)
        /\ UNCHANGED <<now, loaded, taskVars, playerVars>>

\* a cached file is deleted from outside the application
ExternalDelete ==
    \E f \in Present(files) :
        /\ files' = [files EXCEPT ![f] = Absent]
        /\ last' = Op("external_delete", <<>>, NoRet, <<>>)
        /\ UNCHANGED <<entries, access_order, now, loaded, taskVars, playerVars>>

\* the wall clock advances
ClockTick ==
    /\ now < MaxClock
    /\ now' = now + 1
    /\ UNCHANGED <<files, entries, access_order, loaded, last, taskVars, playerVars>>

\* the application is closed and started again: AudioCache::new
Restart ==
    \E listing \in Listings(Present(files)) :
        LET c == load_existing_entries(listing, files)
        IN  /\ Install(c)
            /\ loaded' = Cardinality(DOMAIN c.entries)
            /\ last' = Op("new", <<>>, NoRet, <<>>)
            /\ UNCHANGED <<now, taskVars, playerVars>>

NextCache == Lookup \/ Store \/ Clear \/ ExternalDelete \/ ClockTick \/ Restart

SpecCache == Init /\ [][NextCache]_vars

(* play_song (commands.rs:540-607): the cache part of concurrent requests *)

\* play_song(item_id) is invoked; the stream URL is formatted
Call(t) ==
    /\ pc[t] = "idle"
    /\ \E id \in SongIds : req' = [req EXCEPT ![t] = [item_id |-> id, cached |-> NoRet]]
    /\ pc' = [pc EXCEPT ![t] = "lock_lookup"]
    /\ UNCHANGED <<cacheVars, lock, playerVars>>

\* state.audio_cache.lock().await of the first block (line 582)
AcquireLookup(t) ==
    /\ pc[t] = "lock_lookup"
    /\ CanLock(lock)
    /\ lock' = t
    /\ pc' = [pc EXCEPT ![t] = "lookup"]
    /\ UNCHANGED <<cacheVars, req, playerVars>>

\* cache.get_cached_path(&item_id); the guard is dropped at the end of the block
DoLookup(t) ==
    /\ pc[t] = "lookup"
    /\ \E failDel \in {{}, Referenced} :
         LET r == get_cached_path(Cache, req[t].item_id, now, failDel)
         IN  /\ Install(r.cache)
             /\ last' = Op("lookup", req[t].item_id, r.ret, <<>>)
             /\ req' = [req EXCEPT ![t].cached = r.ret]
             /\ pc' = [pc EXCEPT ![t] = IF r.ret.tag = "Some" THEN "resolved"
                                        ELSE "lock_store"]
    /\ lock' = NoTask
    /\ UNCHANGED <<now, loaded, playerVars>>

\* state.audio_cache.lock().await of the second block (line 591)
AcquireStore(t) ==
    /\ pc[t] = "lock_store"
    /\ CanLock(lock)
    /\ lock' = t
    /\ pc' = [pc EXCEPT ![t] = "store_begin"]
    /\ UNCHANGED <<cacheVars, req, playerVars>>

\* cache.cache_audio(..) up to send().await; the guard is kept across the await
StoreBegin(t) ==
    /\ pc[t] = "store_begin"
    /\ \E failDel \in {{}, Referenced} :
         LET b == cache_audio_begin(Cache, req[t].item_id, now, failDel)
         IN  /\ Install(b.cache)
             /\ last' = Op("store_begin", req[t].item_id, b.ret, b.evicted)
             /\ req' = [req EXCEPT ![t].cached = b.ret]
             /\ pc' = [pc EXCEPT ![t] = IF b.done THEN "resolved" ELSE "downloading"]
             /\ lock' = IF b.done THEN NoTask ELSE lock
    /\ UNCHANGED <<now, loaded, playerVars>>

\* the download ends, cache_audio returns and the guard is dropped
StoreEnd(t) ==
    /\ pc[t] = "downloading"
    /\ \E outcome \in StoreOutcomes :
         LET f == cache_audio_finish(Cache, req[t].item_id, now, outcome)
         IN  /\ Install(f.cache)
             /\ last' = Op("store", req[t].item_id, f.ret, <<>>)
             /\ req' = [req EXCEPT ![t].cached = f.ret]
    /\ pc' = [pc EXCEPT ![t] = "resolved"]
    /\ lock' = NoTask
    /\ UNCHANGED <<now, loaded, playerVars>>

\* the request hands its item to the actor and returns
Finish(t) ==
    /\ pc[t] = "resolved"
    /\ pc' = [pc EXCEPT ![t] = "idle"]
    /\ UNCHANGED <<cacheVars, lock, req, playerVars>>

NextPlaySong ==
    \/ \E t \in Tasks : Call(t)
    \/ \E t \in Tasks : AcquireLookup(t)
    \/ \E t \in Tasks : DoLookup(t)
    \/ \E t \in Tasks : AcquireStore(t)
    \/ \E t \in Tasks : StoreBegin(t)
    \/ \E t \in Tasks : StoreEnd(t)
    \/ \E t \in Tasks : Finish(t)
    \/ ClockTick

SpecPlaySong == Init /\ [][NextPlaySong]_vars

(* The playback actor: AudioPlayerWorker::run, one select! branch per step *)

SentPositionUpdate(o) == \E i \in 1..Len(o) : o[i].type = "PositionUpdate"
\* a send that waits until every live receiver has room for the events
BroadcastWaits ==
    /\ sent' = IF SentPositionUpdate(out')
               THEN [last |-> time, prev |-> sent.last] ELSE sent
    /\ subs.tail < MaxEvents
    /\ \A s \in Live(subs) :
           (subs.tail - subs.rx[s].next) + Len(Events(out')) <= BroadcastCapacity
    /\ subs' = send_all(subs, Events(out'))
\* let _ = event_sender.send(event) for each event in `out`, in order
Broadcast ==
    /\ sent' = IF SentPositionUpdate(out')
               THEN [last |-> time, prev |-> sent.last] ELSE sent
    /\ subs.tail < MaxEvents
    /\ subs' = send_all(subs, Events(out'))

\* the mark of the paused interval, while only ticks and GetState follow the
\* Pause
Carried == IF cmd.type \in {"Pause", "Tick", "GetState"} THEN cmd.mark ELSE NoMark

\* PlayerCommand::PlayItem { item, response }
PlayItem ==
    \E item \in Items, world \in PlayWorlds :
        LET r == play_item(worker, item, world, time)
        IN  /\ worker' = r.w
            /\ out' = r.events \o <<Reply(r.result)>>
            /\ cmd' = Cmd("PlayItem", item, r.result)
            /\ Broadcast
            /\ UNCHANGED <<time, cacheVars, taskVars, busVars>>

\* PlayerCommand::PlayItem for a song found in the disk cache: play_song sends
\* the item with stream_url = "file://<cached path>"
PlayFile ==
    \E item \in QueueItems, world \in PlayWorlds :
        LET r == play_item(worker, item, world, time)
        IN  /\ worker' = r.w
            /\ out' = r.events \o <<Reply(r.result)>>
            /\ cmd' = Cmd("PlayItem", item, r.result)
            /\ Broadcast
            /\ UNCHANGED <<time, cacheVars, taskVars, busVars>>

\* PlayerCommand::Pause
Pause ==
    LET r == pause(worker, time)
        playing == worker.sink.live /\ ~worker.sink.paused
                   /\ worker.state.is_playing
    IN  /\ worker' = r.w
        /\ out' = r.events
        /\ cmd' = [Cmd("Pause", NoItem, "none") EXCEPT
                     !.mark = IF playing THEN r.w.state.current_position
                              ELSE NoMark]
        /\ Broadcast
        /\ UNCHANGED <<time, cacheVars, taskVars, busVars>>

\* PlayerCommand::Resume
Resume ==
    LET r == resume(worker, time)
    IN  /\ worker' = r.w
        /\ out' = r.events
        /\ cmd' = [Cmd("Resume", NoItem, "none") EXCEPT !.mark = Carried]
        /\ Broadcast
        /\ UNCHANGED <<time, cacheVars, taskVars, busVars>>

\* PlayerCommand::Stop
Stop ==
    LET r == stop(worker)
    IN  /\ worker' = r.w
        /\ out' = r.events
        /\ cmd' = Cmd("Stop", NoItem, "none")
        /\ Broadcast
        /\ UNCHANGED <<time, cacheVars, taskVars, busVars>>

\* a GetState that answers with the state as the last tick left it
GetStateStale ==
    /\ worker' = worker
    /\ out' = <<StateReply(worker.state)>>
    /\ cmd' = [Cmd("GetState", NoItem, "none") EXCEPT
                 !.mark = Carried]
    /\ Broadcast
    /\ UNCHANGED <<time, cacheVars, taskVars, busVars>>

\* PlayerCommand::GetState { response }
GetState ==
    LET r == update_position(worker, time)
    IN  /\ worker' = r.w
        /\ out' = r.events \o <<StateReply(r.w.state)>>
        /\ cmd' = [Cmd("GetState", NoItem, "none") EXCEPT
                     !.mark = Carried,
                     !.pos  = IF cmd.type = "Seek" /\ cmd.result = "Ok"
                              THEN cmd.pos ELSE NoMark]
        /\ Broadcast
        /\ UNCHANGED <<time, cacheVars, taskVars, busVars>>

\* position_interval.tick()
Tick ==
    LET r == IF worker.state.is_playing THEN update_position(worker, time)
             ELSE [w |-> worker, events |-> <<>>]
    IN  /\ worker' = r.w
        /\ out' = r.events
        /\ cmd' = [Cmd("Tick", NoItem, "none") EXCEPT !.mark = Carried]
        /\ Broadcast
        /\ UNCHANGED <<time, cacheVars, taskVars, busVars>>

\* the monotonic clock advances by one tick interval
Advance ==
    /\ time < MaxSteps * TickMs
    /\ time' = time + TickMs
    /\ UNCHANGED <<worker, out, cmd, sent, subs, cacheVars, taskVars, busVars>>

\* The answers a Seek does not ask for are fixed: the native attempt asks
\* only if the buffered bytes decode, the restart is made only if the native
\* attempt failed, and it fetches nothing if the bytes of the current song
\* are buffered.
Asked(w, position, world, retry) ==
    LET AllOk    == World(TRUE, TRUE, 0, TRUE, TRUE)
        buffered == w.cached_audio_data # NoData
        same     == buffered /\ w.cached_song_id = w.state.current_song.id
    IN  /\ ~(buffered /\ w.cached_audio_data.valid) => world = AllOk
        /\ seek_native_ok(w, position, world) => retry = AllOk
        /\ (same /\ ~seek_native_ok(w, position, world)) =>
               retry.fetched /\ retry.valid /\ retry.dur = ContainerMs

\* PlayerCommand::Seek(position)
Seek ==
    \E position \in SeekPositions, world \in SeekWorlds, retry \in RetryWorlds :
        LET r == seek(worker, position, world, retry, time)
        IN  /\ Asked(worker, position, world, retry)
            /\ worker' = r.w
            /\ out' = r.events
            /\ cmd' = [Cmd("Seek", NoItem, r.result) EXCEPT !.pos = position]
            /\ Broadcast
            /\ UNCHANGED <<time, cacheVars, taskVars, busVars>>

\* PlayerCommand::SetVolume(volume)
SetVolume ==
    \E volume \in VolumeInputs :
        LET r == set_volume(worker, volume)
        IN  /\ worker' = r.w
            /\ out' = r.events
            /\ cmd' = [Cmd("SetVolume", NoItem, "none") EXCEPT
                         !.pos = volume]
            /\ Broadcast
            /\ UNCHANGED <<time, cacheVars, taskVars, busVars>>

\* PlayerCommand::ToggleShuffle
ToggleShuffle ==
    LET r == toggle_shuffle(worker)
    IN  /\ worker' = r.w
        /\ out' = r.events
        /\ cmd' = Cmd("ToggleShuffle", NoItem, "none")
        /\ Broadcast
        /\ UNCHANGED <<time, cacheVars, taskVars, busVars>>

\* PlayerCommand::SetRepeatMode(mode)
SetRepeatMode ==
    \E mode \in RepeatModes :
        LET r == set_repeat_mode(worker, mode)
        IN  /\ worker' = r.w
            /\ out' = r.events
            /\ cmd' = Cmd("SetRepeatMode", NoItem, "none")
            /\ Broadcast
            /\ UNCHANGED <<time, cacheVars, taskVars, busVars>>

\* PlayerCommand::NextTrack
NextTrack ==
    \E world \in PlayWorlds :
        LET r     == next_track(worker, world, time)
            again == cmd.type = "NextTrack"
        IN  /\ worker' = r.w
            /\ out' = r.events
            /\ cmd' = [Cmd("NextTrack", NoItem, "none") EXCEPT
                         !.run  = IF again THEN Min(cmd.run + 1, MaxQueue + 2)
                                  ELSE 1,
                         !.from = IF again THEN cmd.from
                                  ELSE worker.current_index]
            /\ Broadcast
            /\ UNCHANGED <<time, cacheVars, taskVars, busVars>>

\* PlayerCommand::PreviousTrack
PreviousTrack ==
    \E world \in PlayWorlds :
        LET r == previous_track(worker, world, time)
        IN  /\ worker' = r.w
            /\ out' = r.events
            /\ cmd' = Cmd("PreviousTrack", NoItem, "none")
            /\ Broadcast
            /\ UNCHANGED <<time, cacheVars, taskVars, busVars>>

NextPlayer == PlayItem \/ Pause \/ Resume \/ Stop \/ GetState \/ Tick \/ Advance

SpecPlayer == Init /\ [][NextPlayer]_vars

(* The actor playing cached files and seeking in them *)
NextSeek ==
    PlayFile \/ Pause \/ Resume \/ Stop \/ Seek \/ GetState \/ Tick \/ Advance

SpecSeek == Init /\ [][NextSeek]_vars

(* Position tracking over a longer time: the clock runs for MaxTicks tick   *)
(* intervals                                                                *)
Elapse ==
    /\ time < MaxTicks * TickMs
    /\ time' = time + TickMs
    /\ UNCHANGED <<worker, out, cmd, sent, subs, cacheVars, taskVars, busVars>>

NextPosition ==
    PlayFile \/ Pause \/ Resume \/ SetRepeatMode \/ GetState \/ Tick \/ Elapse

SpecPosition == Init /\ [][NextPosition]_vars

(* The commands that do not depend on the clock *)
NextControls ==
    \/ PlayItem \/ Stop \/ SetVolume \/ ToggleShuffle \/ SetRepeatMode
    \/ NextTrack \/ PreviousTrack

SpecControls == Init /\ [][NextControls]_vars

(* next_track and previous_track on a worker constructed with a queue: no   *)
(* command of the actor adds to the queue, so the queue, the index and the  *)
(* repeat mode are drawn here as the inputs of the two methods.             *)
Queues == UNION {[1..n -> QueueItems] : n \in 1..MaxQueue}

InitQueue ==
    /\ files = [f \in FileNames |-> Absent]
    /\ entries = <<>>
    /\ access_order = <<>>
    /\ now = 0
    /\ loaded = 0
    /\ last = Op("new", <<>>, NoRet, <<>>)
    /\ lock = NoTask
    /\ pc = [t \in Tasks |-> "idle"]
    /\ req = [t \in Tasks |-> [item_id |-> NoSong, cached |-> NoRet]]
    /\ \E q \in Queues, mode \in RepeatModes :
         \E i \in {NoIndex} \cup (0 .. Len(q) - 1) :
            worker = [InitWorker(0) EXCEPT !.queue = q,
                                           !.current_index = i,
                                           !.state.repeat_mode = mode]
    /\ time = 0
    /\ out = <<>>
    /\ cmd = Cmd("none", NoItem, "none")
    /\ sent = [last |-> NoInstant, prev |-> NoInstant]
    /\ subs = InitChannel
    /\ mailbox = <<>>
    /\ bus = InitBus

NextQueue == NextTrack \/ PreviousTrack \/ SetRepeatMode

SpecQueue == InitQueue /\ [][NextQueue]_vars

(* The actor and the receivers of its events *)

\* AudioPlayer::subscribe_to_events
Subscribe ==
    \E s \in Subscribers :
        /\ subs.rx[s].status = "none"
        /\ subs' = subscribe(subs, s)
        /\ UNCHANGED <<worker, time, out, cmd, sent, cacheVars, taskVars, busVars>>

\* a subscriber's recv().await returns
Receive ==
    \E s \in Subscribers :
        /\ Ready(subs, s)
        /\ subs' = recv(subs, s)
        /\ UNCHANGED <<worker, time, out, cmd, sent, cacheVars, taskVars, busVars>>

\* a subscriber drops its Receiver
DropReceiver ==
    \E s \in Live(subs) :
        /\ subs' = drop_receiver(subs, s)
        /\ UNCHANGED <<worker, time, out, cmd, sent, cacheVars, taskVars, busVars>>

NextEvents ==
    PlayFile \/ Pause \/ Stop \/ Subscribe \/ Receive \/ DropReceiver

SpecEvents == Init /\ [][NextEvents]_vars

(* The run loop behind the command channel *)

CommandTypes == {"PlayItem", "Stop", "GetState", "Shutdown"}
\* the sender half fails once the receiver half is dropped
Closed == bus.phase = "dropped"
\* the loop is in select! and recv() has a command to return
Selects(type) ==
    /\ bus.phase = "idle"
    /\ mailbox # <<>>
    /\ command_recv(mailbox).command.type = type
\* a handler that is not suspended returns: back to select!
Handled(c) ==
    [bus EXCEPT !.taken = c.id,
                !.handled = <<bus.handled[2], c.type>>,
                !.waiting = @ \ {c.id}]

\* AudioPlayer::play_item, stop, get_state: command_sender.send(command)
SendCommand ==
    \E type \in CommandTypes, item \in QueueItems :
        LET c == [id |-> bus.n + 1, type |-> type,
                  item |-> IF type = "PlayItem" THEN item ELSE NoItem]
        IN  /\ bus.n < MaxCommands
            /\ IF Closed
               THEN /\ bus' = [bus EXCEPT !.n = c.id, !.send = "Err"]
                    /\ mailbox' = mailbox
               ELSE /\ bus' = [bus EXCEPT
                                 !.n = c.id, !.send = "Ok",
                                 !.waiting = IF type \in Awaited
                                             THEN @ \cup {c.id} ELSE @]
                    /\ mailbox' = Append(mailbox, c)
            /\ UNCHANGED <<worker, time, out, cmd, sent, subs, cacheVars, taskVars>>

\* Some(PlayerCommand::PlayItem): the handler is suspended in play_item().await
RunPlayItemBegin ==
    /\ Selects("PlayItem")
    /\ LET r == command_recv(mailbox)
       IN  /\ mailbox' = r.rest
           /\ bus' = [bus EXCEPT !.phase = "loading", !.taken = r.command.id,
                                 !.current = r.command]
    /\ UNCHANGED <<worker, time, out, cmd, sent, subs, cacheVars, taskVars>>

\* play_item().await returns and the result is sent to the caller
RunPlayItemEnd ==
    /\ bus.phase = "loading"
    /\ \E world \in PlayWorlds :
        LET r == play_item(worker, bus.current.item, world, time)
        IN  /\ worker' = r.w
            /\ out' = r.events \o <<Reply(r.result)>>
            /\ cmd' = Cmd("PlayItem", bus.current.item, r.result)
    /\ bus' = [Handled(bus.current) EXCEPT !.phase = "idle",
                                           !.current = NoCommand]
    /\ Broadcast
    /\ UNCHANGED <<mailbox, time, cacheVars, taskVars>>

\* Some(PlayerCommand::Stop)
RunStop ==
    /\ Selects("Stop")
    /\ LET c == command_recv(mailbox)
           r == stop(worker)
       IN  /\ mailbox' = c.rest
           /\ bus' = Handled(c.command)
           /\ worker' = r.w
           /\ out' = r.events
           /\ cmd' = Cmd("Stop", NoItem, "none")
    /\ Broadcast
    /\ UNCHANGED <<time, cacheVars, taskVars>>

\* Some(PlayerCommand::GetState { response })
RunGetState ==
    /\ Selects("GetState")
    /\ LET c == command_recv(mailbox)
           r == update_position(worker, time)
       IN  /\ mailbox' = c.rest
           /\ bus' = Handled(c.command)
           /\ worker' = r.w
           /\ out' = r.events \o <<StateReply(r.w.state)>>
           /\ cmd' = Cmd("GetState", NoItem, "none")
    /\ Broadcast
    /\ UNCHANGED <<time, cacheVars, taskVars>>

\* Some(PlayerCommand::Shutdown) => break
RunShutdown ==
    /\ Selects("Shutdown")
    /\ LET c == command_recv(mailbox)
       IN  /\ mailbox' = c.rest
           /\ bus' = [Handled(c.command) EXCEPT !.phase = "exited"]
    /\ out' = <<>>
    /\ cmd' = Cmd("Shutdown", NoItem, "none")
    /\ Broadcast
    /\ UNCHANGED <<worker, time, cacheVars, taskVars>>

\* run returns: the worker and with it command_receiver are dropped, the
\* commands still in the channel are dropped with their response senders
DropWorker ==
    /\ bus.phase = "exited"
    /\ mailbox' = <<>>
    /\ bus' = [bus EXCEPT !.phase = "dropped", !.waiting = {},
                          !.lost = @ \cup bus.waiting]
    /\ UNCHANGED <<worker, time, out, cmd, sent, subs, cacheVars, taskVars>>

\* the position_interval.tick() branch of select!
RunTick ==
    /\ bus.phase = "idle"
    /\ LET r == IF worker.state.is_playing THEN update_position(worker, time)
                ELSE [w |-> worker, events |-> <<>>]
       IN  /\ worker' = r.w
           /\ out' = r.events
           /\ cmd' = Cmd("Tick", NoItem, "none")
    /\ Broadcast
    /\ UNCHANGED <<time, cacheVars, taskVars, busVars>>

NextActor ==
    \/ SendCommand \/ RunPlayItemBegin \/ RunPlayItemEnd \/ RunStop
    \/ RunGetState \/ RunShutdown \/ DropWorker \/ RunTick

SpecActor == Init /\ [][NextActor]_vars

----------------------------------------------------------------------------
(* Properties of the disk cache (SpecCache) *)

\* a step of SpecCache that is a call of get_cached_path / cache_audio / clear_cache
LookupStep == last'.op = "lookup" /\ now' = now
StoreStep == last'.op = "store" /\ now' = now
ClearStep == last'.op = "clear" /\ now' = now

\* C1: every eviction performed by store removes the entry whose last_accessed
\* is the smallest among the entries in the index at that moment.
C1_EvictsOldest ==
    \A i \in 1..Len(last.evicted) : last.evicted[i].ts = last.evicted[i].min

\* C2: starting from an index of at most max_entries entries, the index never
\* holds more than max_entries entries.
C2_CapacityBound ==
    loaded <= max_entries => Cardinality(DOMAIN entries) <= max_entries

\* a store at capacity evicted an entry and then inserted
C2_Witness ==
    /\ loaded <= max_entries
    /\ last.op = "store" /\ last.ret.tag = "Ok"
    /\ Len(last.evicted) > 0
    /\ last.id \in DOMAIN entries
    /\ Cardinality(DOMAIN entries) = max_entries

\* C3: access_order contains exactly the keys of the index, each exactly once.
C3_AccessOrderExact ==
    /\ Range(access_order) = DOMAIN entries
    /\ \A id \in DOMAIN entries : Occurrences(access_order, id) = 1

\* C4: lookup returns the entry's path iff the index has the id and its file
\* exists; a stale entry is removed from the index and from the access order
\* and none is returned; an unknown id returns none and changes nothing.
C4_LookupContract ==
    [][LookupStep =>
        LET id   == last'.id
            had  == id \in DOMAIN entries
            live == had /\ Exists(files, entries[id].file_path)
        IN  /\ (last'.ret.tag = "Some") <=> live
            /\ live => last'.ret.path = entries[id].file_path
            /\ (had /\ ~live) =>
                   /\ id \notin DOMAIN entries'
                   /\ id \notin Range(access_order')
            /\ ~had => UNCHANGED <<entries, access_order, files>>]_vars

\* C5: the second of two consecutive lookups of a cached id returns the same
\* path, keeps the entry count, leaves exactly one occurrence of the id in the
\* access order, at its most-recently-used end, and keeps the order of the
\* other ids.
C5_IdempotentLookup ==
    [][(LookupStep /\ last.op = "lookup" /\ last.ret.tag = "Some"
                   /\ last'.id = last.id) =>
        /\ last'.ret = last.ret
        /\ Cardinality(DOMAIN entries') = Cardinality(DOMAIN entries)
        /\ Occurrences(access_order', last.id) = 1
        /\ access_order'[Len(access_order')] = last.id
        /\ Without(access_order', last.id) = Without(access_order, last.id)]_vars

\* C6: after a store that returned an error the id is neither a key of the
\* index nor a member of the access order.
C6_FailedStoreRegistersNothing ==
    (last.op = "store" /\ last.ret.tag = "Err") =>
        /\ last.id \notin DOMAIN entries
        /\ last.id \notin Range(access_order)

\* C7: an id whose entry a cache operation removes leaves the index and the
\* access order whether or not its file could be deleted, and after clear the
\* index and the access order are empty and clear has returned Ok.
C7_RemovalIgnoresDeleteFailure ==
    [][(LookupStep \/ StoreStep \/ ClearStep) =>
        /\ \A id \in DOMAIN entries \ DOMAIN entries' :
               id \notin Range(access_order')
        /\ ClearStep => /\ entries' = <<>>
                        /\ access_order' = <<>>
                        /\ last'.ret.tag = "Ok"]_vars

----------------------------------------------------------------------------
(* Properties of concurrent play_song requests (SpecPlaySong) *)

\* C8: no two tasks are inside a cache operation at the same time, and a task
\* inside a lookup or anywhere inside a store, its download included, holds
\* the cache lock.
C8_CacheMutualExclusion ==
    /\ \A t, u \in Tasks :
          (t # u) => ~(InCriticalSection(t) /\ InCriticalSection(u))
    /\ \A t \in Tasks : InCriticalSection(t) => lock = t

\* one request is downloading inside store while another waits for the lock
C8_Witness ==
    \E t, u \in Tasks :
        /\ t # u
        /\ pc[t] = "downloading"
        /\ pc[u] \in {"lock_lookup", "lock_store"}
        /\ lock = t

----------------------------------------------------------------------------
(* Properties of the playback actor (SpecPlayer) *)

\* a step of SpecPlayer that handles a PlayItem command
PlayItemStep == cmd'.type = "PlayItem" /\ time' = time

\* C9: a successful PlayItem(item) ends with is_playing, current_song = item,
\* both positions 0, audio_start_time = now and a live sink for the item, and
\* sends exactly TrackChanged(item), StateChanged and then the reply.
C9_PlayItemSuccess ==
    [][(PlayItemStep /\ cmd'.result = "Ok") =>
        /\ worker'.state.is_playing
        /\ worker'.state.current_song = cmd'.item
        /\ worker'.state.current_position = 0
        /\ worker'.visual_position = 0
        /\ worker'.audio_start_time = time
        /\ worker'.sink.live /\ ~worker'.sink.paused
        /\ worker'.sink.song = cmd'.item.id
        /\ out' = <<TrackChanged(cmd'.item), StateChanged(worker'.state),
                    Reply("Ok")>>]_vars

\* a PlayItem has succeeded while another track was loaded, after time passed
C9_Witness ==
    /\ cmd.type = "PlayItem" /\ cmd.result = "Ok"
    /\ worker.state.current_song = cmd.item
    /\ worker.audio_start_time = time /\ time > 0
    /\ Len(out) = 3 /\ out[3] = Reply("Ok")

\* C10: after a PlayItem that failed there is no active sink, is_playing is
\* false and the error has been sent on the reply channel.
C10_FailedPlayItemIdle ==
    (cmd.type = "PlayItem" /\ cmd.result = "Err") =>
        /\ ~worker.sink.live
        /\ ~worker.state.is_playing
        /\ out = <<Reply("Err")>>

----------------------------------------------------------------------------
(* Properties of seeking, pausing and errors (SpecSeek) *)

SeekStep == cmd'.type = "Seek" /\ time' = time
GetStateStep == cmd'.type = "GetState" /\ time' = time
\* the snapshots sent by the last command or tick
Snapshots == {out[i].state : i \in {j \in 1..Len(out) :
                                     out[j].type \in {"StateChanged", "StateReply"}}}
\* Idle: no sink and nothing playing
Idle(w) == ~w.sink.live /\ ~w.state.is_playing

\* C11: after a PlayItem or a Seek that failed inside the actor, an Error
\* event is among the events broadcast.
C11_ErrorsBroadcast ==
    (cmd.type \in {"PlayItem", "Seek"} /\ cmd.result = "Err") =>
        \E i \in 1..Len(out) : out[i].type = "Error"

\* C12: a Seek that succeeds, natively or through the restart, leaves
\* is_playing as it was, and audio_start_time is set exactly when is_playing.
C12_SeekKeepsFlag ==
    [][(SeekStep /\ cmd'.result = "Ok") =>
        /\ worker'.state.is_playing = worker.state.is_playing
        /\ (worker'.audio_start_time # NoInstant) <=> worker'.state.is_playing]_vars

\* a paused track has been sought through the restart fallback
C12_Witness ==
    /\ cmd.type = "Seek" /\ cmd.result = "Ok"
    /\ Len(out) = 3 /\ out[1].type = "TrackChanged"
    /\ ~worker.state.is_playing
    /\ worker.sink.live /\ worker.sink.paused

\* C13: after a successful Seek(t) with 0 <= t < duration both positions are
\* t, and a GetState handled next, at most one tick interval later, reports a
\* current_position between t and t + 250 ms.
C13_SeekAccuracy ==
    [][/\ (SeekStep /\ cmd'.result = "Ok"
             /\ 0 <= cmd'.pos /\ cmd'.pos < worker'.state.duration) =>
            /\ worker'.visual_position = cmd'.pos
            /\ worker'.state.current_position = cmd'.pos
       /\ (GetStateStep /\ cmd.type = "Seek" /\ cmd.result = "Ok"
             /\ 0 <= cmd.pos /\ cmd.pos < worker.state.duration
             /\ (worker.state.is_playing =>
                     time - worker.audio_start_time <= TickMs)) =>
            LET read == out'[Len(out')].state.current_position
            IN  cmd.pos <= read /\ read <= cmd.pos + TickMs]_vars

\* the state was read one tick after a seek into a playing track
C13_Witness ==
    /\ cmd.type = "GetState" /\ cmd.pos = TickMs
    /\ worker.state.is_playing
    /\ worker.state.current_position = 2 * TickMs
    /\ worker.state.current_position < worker.state.duration

\* C14: a Seek that failed, its restart included, leaves the actor Idle or
\* exactly as it was before the Seek.
C14_FailedSeekIdleOrPrior ==
    [][(SeekStep /\ cmd'.result = "Err") =>
        (Idle(worker') \/ worker' = worker)]_vars

\* C15: current_position and visual_position are never negative, in the
\* state and in every snapshot sent.
C15_NoNegativePosition ==
    /\ worker.state.current_position >= 0
    /\ worker.visual_position >= 0
    /\ \A st \in Snapshots : st.current_position >= 0

\* C16: the current_position right after a Resume that ends a paused
\* interval, in which only ticks and GetState were handled, is the
\* current_position right after the Pause that began it.
C16_PauseResumeRoundTrip ==
    (cmd.type = "Resume" /\ cmd.mark # NoMark) =>
        /\ worker.state.current_position = cmd.mark
        /\ out = <<StateChanged(worker.state)>>

\* a track paused after one tick of playing was resumed later
C16_Witness ==
    /\ cmd.type = "Resume" /\ cmd.mark = TickMs
    /\ worker.audio_start_time = MaxSteps * TickMs
    /\ worker.state.is_playing

\* C17: with no sink and no current track, Pause, Resume and Seek change
\* nothing in the actor and send nothing.
C17_IdleNoOps ==
    [][(/\ cmd'.type \in {"Pause", "Resume", "Seek"} /\ time' = time
        /\ ~worker.sink.live /\ worker.state.current_song = NoItem) =>
        /\ worker' = worker
        /\ out' = <<>>
        /\ cmd'.result = "none"]_vars

\* a Seek arrived after a track had been played and stopped
C17_Witness ==
    /\ cmd.type = "Seek" /\ cmd.result = "none"
    /\ worker.state.duration > 0
    /\ ~worker.sink.live /\ worker.state.current_song = NoItem

----------------------------------------------------------------------------
(* Properties of the volume (SpecControls) *)

\* C18: the volume is always between 0 and 1 (0 and 100 percent), and
\* SetVolume(v) stores min(1, max(0, v)), with or without a sink, and changes
\* no other field of the playback state.
C18_VolumeBound ==
    /\ [](0 <= worker.state.volume /\ worker.state.volume <= 100)
    /\ [][cmd'.type = "SetVolume" =>
            worker'.state =
                [worker.state EXCEPT !.volume = Min(100, Max(0, cmd'.pos))]]_vars

\* a volume above 1 was set while a sink was live
C18_Witness ==
    /\ cmd.type = "SetVolume" /\ cmd.pos > 100
    /\ worker.state.volume = 100
    /\ worker.sink.live /\ worker.sink.volume = 100

----------------------------------------------------------------------------
(* Properties of next_track and previous_track on a queue (SpecQueue) *)

LastIndex == Len(worker.queue) - 1
AtIndex == worker.queue # <<>> /\ worker.current_index # NoIndex
Unchanged == worker' = worker /\ out' = <<>>

\* C19: with a non-empty queue and a current index, NextTrack at the last
\* index and PreviousTrack at index 0 wrap to the opposite end in repeat mode
\* All and change nothing and send nothing in the other modes; elsewhere
\* they move the index by exactly one.
C19_QueueBoundary ==
    [][/\ (cmd'.type = "NextTrack" /\ AtIndex) =>
            IF worker.current_index = LastIndex
            THEN IF worker.state.repeat_mode = "All"
                 THEN worker'.current_index = 0
                 ELSE Unchanged
            ELSE worker'.current_index = worker.current_index + 1
       /\ (cmd'.type = "PreviousTrack" /\ AtIndex) =>
            IF worker.current_index = 0
            THEN IF worker.state.repeat_mode = "All"
                 THEN worker'.current_index = LastIndex
                 ELSE Unchanged
            ELSE worker'.current_index = worker.current_index - 1]_vars

\* PreviousTrack at index 0 of a longer queue has wrapped to the last index
C19_Witness ==
    /\ cmd.type = "PreviousTrack"
    /\ Len(worker.queue) = MaxQueue
    /\ worker.state.repeat_mode = "All"
    /\ worker.current_index = LastIndex
    /\ worker.state.current_song = worker.queue[MaxQueue]

\* the fourth of four NextTrack commands in a row that began at index 0 of a
\* 3-item queue in repeat mode All
FourNextTracks ==
    /\ cmd.type = "NextTrack" /\ cmd.run = 4 /\ cmd.from = 0
    /\ Len(worker.queue) = 3
    /\ worker.state.repeat_mode = "All"

----------------------------------------------------------------------------
(* Properties of position tracking (SpecPosition) *)

TickStep == cmd'.type = "Tick" /\ time' = time
\* the state in the reply of the GetState handled in this step
ReplyState == out'[Len(out')].state
\* the playing track has reached its duration
Due ==
    /\ worker.state.is_playing /\ worker.audio_start_time # NoInstant
    /\ worker.state.duration > 0
    /\ worker.visual_position + (time - worker.audio_start_time)
           >= worker.state.duration

\* C21: a GetState reply that reports playing carries current_position =
\* visual_position + the time elapsed since audio_start_time at the moment
\* the GetState is handled; when the actor is not playing the reply is the
\* stored state.
C21_PositionExtrapolation ==
    [][GetStateStep =>
        /\ ReplyState.is_playing =>
               ReplyState.current_position =
                   worker.visual_position + (time - worker.audio_start_time)
        /\ ~worker.state.is_playing => ReplyState = worker.state]_vars

\* a resumed track was read some time after the Resume, with no tick since
C21_Witness ==
    /\ cmd.type = "GetState"
    /\ worker.state.is_playing
    /\ worker.visual_position > 0
    /\ time > worker.audio_start_time
    /\ worker.state.current_position =
           worker.visual_position + (time - worker.audio_start_time)

\* C22: once visual_position + elapsed >= duration > 0, the next tick or
\* GetState sets is_playing = false and current_position = duration, clears
\* audio_start_time and emits StateChanged; a track of duration 0 is never
\* declared finished.
C22_CompletionDetection ==
    [][(TickStep \/ GetStateStep) =>
        /\ Due =>
              /\ ~worker'.state.is_playing
              /\ worker'.state.current_position = worker.state.duration
              /\ worker'.audio_start_time = NoInstant
              /\ \E i \in 1..Len(out') : out'[i] = StateChanged(worker'.state)
        /\ (worker.state.is_playing /\ worker.state.duration = 0) =>
              worker'.state.is_playing]_vars

\* a 0.5 s track played from its start was read after 0.75 s
C22_Witness ==
    /\ cmd.type = "GetState" /\ time = 3 * TickMs
    /\ worker.state.duration = 2 * TickMs
    /\ worker.state.current_position = 2 * TickMs
    /\ ~worker.state.is_playing
    /\ worker.audio_start_time = NoInstant
    /\ Len(out) = 2 /\ out[1].type = "StateChanged"

\* the commands and ticks that may come between two reads
ReadKeeping ==
    {"Tick", "GetState", "Resume", "SetVolume", "ToggleShuffle", "SetRepeatMode"}

C24_PositionUpdateRateLimit ==
    sent.prev # NoInstant => sent.last - sent.prev >= RateLimitMs

\* two PositionUpdate events have been sent
C24_Witness ==
    /\ sent.prev # NoInstant
    /\ sent.last = time
    /\ SentPositionUpdate(out)

\* C28: the tick that detects the end of the track leaves no sink, and in
\* repeat mode One or All the actor is playing again.
C28_CompletionLeadsToIdle ==
    [][(TickStep /\ Due) =>
        /\ ~worker'.sink.live
        /\ worker.state.repeat_mode \in {"One", "All"} =>
               worker'.state.is_playing]_vars

----------------------------------------------------------------------------
(* Further properties of the playback actor *)

\* C27: after Stop there is no sink, is_playing is false, both positions
\* are 0, audio_start_time is unset, there is no current song and no
\* buffered bytes; StateChanged and then TrackChanged(none) are sent; volume,
\* shuffle flag and repeat mode are as before.
C27_StopYieldsIdle ==
    [][(cmd'.type = "Stop" /\ time' = time) =>
        /\ worker'.sink = NoSink
        /\ ~worker'.state.is_playing
        /\ worker'.state.current_position = 0
        /\ worker'.visual_position = 0
        /\ worker'.audio_start_time = NoInstant
        /\ worker'.state.current_song = NoItem
        /\ worker'.cached_audio_data = NoData /\ worker'.cached_song_id = NoSong
        /\ out' = <<StateChanged(worker'.state), TrackChanged(NoItem)>>
        /\ worker'.state.volume = worker.state.volume
        /\ worker'.state.is_shuffled = worker.state.is_shuffled
        /\ worker'.state.repeat_mode = worker.state.repeat_mode]_vars

\* a track that had been loaded was stopped
C27_Witness ==
    /\ cmd.type = "Stop"
    /\ worker.state.duration > 0
    /\ worker.sink = NoSink /\ worker.cached_audio_data = NoData
    /\ out = <<StateChanged(worker.state), TrackChanged(NoItem)>>

\* C30: after a successful PlayItem the duration is the one the container
\* declares when it declares one, else duration_ticks / 10,000,000 when the
\* item carries it, else 0.
C30_DurationPrecedence ==
    [][(PlayItemStep /\ cmd'.result = "Ok") =>
        worker'.state.duration =
            IF worker'.cached_audio_data.dur > 0
            THEN worker'.cached_audio_data.dur
            ELSE IF cmd'.item.duration_ticks # NoTicks
            THEN cmd'.item.duration_ticks \div TicksPerMs
            ELSE 0]_vars

----------------------------------------------------------------------------
(* Properties of the event channel (SpecEvents) *)

\* the actor's handlers of this specification can take their step
ActorCanStep == ENABLED PlayFile /\ ENABLED Pause /\ ENABLED Stop
\* s's recv returned a value in this step
Received(s) ==
    /\ subs.rx[s].status = "live" /\ subs'.rx[s].status = "live"
    /\ subs'.rx[s].got # subs.rx[s].got

\* C29: whatever the receivers do (none, one that does not read, one that was
\* dropped) the actor can emit and handle its next command; what a
\* subscriber receives was emitted after it subscribed, and it receives in
\* the order of emission.
C29_BroadcastNeverBlocks ==
    /\ [](subs.tail < MaxEvents => ActorCanStep)
    /\ [](\A s \in Live(subs) :
             /\ subs.rx[s].from <= subs.rx[s].next
             /\ subs.rx[s].next <= subs.tail
             /\ subs.rx[s].got # NoValue =>
                   /\ subs.rx[s].from <= subs.rx[s].got.pos
                   /\ subs.rx[s].got.pos < subs.rx[s].next)
    /\ [][\A s \in Subscribers :
             Received(s) =>
                 /\ subs'.rx[s].got.pos >= subs.rx[s].next
                 /\ subs'.rx[s].got.pos > subs.rx[s].got.pos
                 /\ subs'.rx[s].got.pos >= subs.rx[s].from]_vars

\* one subscriber has not read and lost events, the other was dropped after
\* it subscribed, and the actor has emitted again
C29_Witness ==
    \E s, u \in Subscribers :
        /\ subs.rx[s].status = "live"
        /\ subs.rx[s].next < oldest(subs)
        /\ subs.rx[u].status = "dropped"
        /\ Events(out) # <<>>

----------------------------------------------------------------------------
(* Properties of the run loop (SpecActor) *)

\* recv() returned a command in this step
Takes == bus'.taken # bus.taken
\* the loop has left select! for good
Exited == bus.phase \in {"exited", "dropped"}

\* C25: commands are taken one at a time in the order they were sent, each
\* only when the handler before it has returned; the tick branch runs only
\* between handlers; whenever the last two commands handled are a PlayItem
\* and then a Stop, the actor is Idle.
C25_CommandOrdering ==
    /\ [][Takes => /\ bus.phase = "idle"
                   /\ bus'.taken = bus.taken + 1]_vars
    /\ [][(cmd'.type = "Tick" /\ cmd' # cmd) => bus.phase = "idle"]_vars
    /\ [][bus.phase = "loading" =>
             (worker' # worker => bus'.handled[2] = "PlayItem"
                                  /\ bus'.taken = bus.taken)]_vars
    /\ [](bus.handled = <<"PlayItem", "Stop">> =>
             Idle(worker) /\ worker.state.current_song = NoItem)

\* the second command sent, a Stop, was handled after the first, a PlayItem
C25_Witness ==
    /\ bus.handled = <<"PlayItem", "Stop">>
    /\ bus.taken = 2
    /\ cmd.type = "Stop"
    /\ Idle(worker)

----------------------------------------------------------------------------
(* Invariants of the worker's fields *)

\* C33: whenever bytes are buffered and a track is loaded, cached_song_id is
\* the id of current_song and the buffered bytes are that track's; the sink a
\* Seek builds plays the track shown in the state.
C33_BufferKeyedByTrack ==
    /\ (worker.cached_audio_data # NoData /\ worker.state.current_song # NoItem) =>
          /\ worker.cached_song_id = worker.state.current_song.id
          /\ worker.cached_audio_data.song = worker.state.current_song.id
    /\ (worker.sink.live /\ cmd.type = "Seek") =>
          worker.sink.song = worker.state.current_song.id

\* C34: when a PlayItem with the cached-file locator has failed, the PlayItem
\* sent next for the same id with the stream URL plays bytes obtained from the
\* stream URL or fails because the download does.
C34_RetryReadsStream ==
    [][(/\ PlayItemStep
        /\ cmd.type = "PlayItem" /\ cmd.result = "Err"
        /\ cmd.item.stream_url = "file://"
        /\ cmd'.item.id = cmd.item.id
        /\ cmd'.item.stream_url = "http://") =>
        /\ worker'.cached_audio_data # NoData =>
              worker'.cached_audio_data.src = "http://"
        /\ cmd'.result = "Ok" => worker'.cached_audio_data.src = "http://"]_vars

\* C35: in every state, is_playing implies that there is a sink.
C35_PlayingImpliesSink ==
    worker.state.is_playing => worker.sink.live

\* C36: in every state between two commands or ticks, audio_start_time is set
\* if and only if is_playing is true.
C36_AnchorInvariant ==
    (worker.audio_start_time # NoInstant) <=> worker.state.is_playing

\* the end of a track cleared the flag and the anchor together
C36_Witness ==
    /\ cmd.type = "Tick"
    /\ ~worker.state.is_playing
    /\ worker.audio_start_time = NoInstant
    /\ worker.sink.live /\ ~worker.sink.paused
    /\ worker.state.current_position = worker.state.duration
    /\ worker.state.duration > 0

\* C37: the queue is empty and current_index is unset in every state, and a
\* NextTrack or PreviousTrack changes nothing of the worker and sends nothing.
C37_QueueAlwaysEmpty ==
    /\ [](worker.queue = <<>> /\ worker.current_index = NoIndex)
    /\ [][(cmd'.type \in {"NextTrack", "PreviousTrack"}) =>
             (worker' = worker /\ out' = <<>>)]_vars

\* NextTrack was sent while a track was playing
C37_Witness ==
    /\ cmd.type = "NextTrack"
    /\ worker.state.is_playing
    /\ worker.state.current_song # NoItem
    /\ out = <<>>

----------------------------------------------------------------------------
(* Further properties of the cache (SpecCache) *)

\* C38: a store of an id that is indexed with its file present returns the
\* existing path whatever the download would have done, evicts nothing, writes
\* no file, leaves the entry count unchanged and leaves the id at the
\* most-recently-used end, also when the cache is at capacity.
C38_StoreHitNoEviction ==
    [][(/\ StoreStep
        /\ last'.id \in DOMAIN entries
        /\ Exists(files, entries[last'.id].file_path)) =>
        /\ last'.ret = [tag |-> "Ok", path |-> entries[last'.id].file_path]
        /\ last'.evicted = <<>>
        /\ files' = files
        /\ DOMAIN entries' = DOMAIN entries
        /\ access_order'[Len(access_order')] = last'.id]_vars

\* a store at capacity answered from the index: the file is older than the
\* access time the store has just written
C38_Witness ==
    /\ last.op = "store" /\ last.ret.tag = "Ok" /\ last.evicted = <<>>
    /\ Cardinality(DOMAIN entries) = max_entries
    /\ last.id \in DOMAIN entries
    /\ Exists(files, entries[last.id].file_path)
    /\ files[entries[last.id].file_path] < entries[last.id].last_accessed
    /\ access_order[Len(access_order)] = last.id

\* C39: a store that returns an error leaves the set of indexed ids and the
\* access order as they were before the call.
C39_FailedStoreKeepsIndex ==
    [][(StoreStep /\ last'.ret.tag = "Err") =>
        (DOMAIN entries' = DOMAIN entries /\ access_order' = access_order)]_vars

----------------------------------------------------------------------------
(* Concurrent requests for one id (SpecPlaySong) *)

\* the request's lookup missed: it is in, or has been through, store
Missed(t) ==
    \/ pc[t] \in {"lock_store", "store_begin", "downloading"}
    \/ pc[t] = "resolved" /\ req[t].cached.tag \in {"Ok", "Err"}
\* the request is downloading, or has downloaded and got an error
Downloads(t) ==
    \/ pc[t] = "downloading"
    \/ pc[t] = "resolved" /\ req[t].cached.tag = "Err"
\* two requests in flight for the same id whose lookups both missed
Concurrent(t, u) ==
    /\ t # u
    /\ req[t].item_id = req[u].item_id
    /\ Missed(t) /\ Missed(u)

----------------------------------------------------------------------------
(* Startup over a cache directory left by earlier runs (SpecStartup) *)

\* names a cache directory may hold at startup: those of SongIds and one more
StartupNames == FileNames \cup {FileName(<<"c">>)}
\* the directories AudioCache::new may find: each file with a timestamp or absent
Directories == [StartupNames -> {Absent} \cup (0..MaxClock)]

\* AppState::new over any such directory
InitStartup ==
    /\ now = MaxClock
    /\ \E dir \in Directories :
         \E listing \in Listings(Present(dir)) :
            LET c == load_existing_entries(listing, dir)
            IN  /\ files = c.files
                /\ entries = c.entries
                /\ access_order = c.access_order
                /\ loaded = Cardinality(DOMAIN c.entries)
    /\ last = Op("new", <<>>, NoRet, <<>>)
    /\ lock = NoTask
    /\ pc = [t \in Tasks |-> "idle"]
    /\ req = [t \in Tasks |-> [item_id |-> NoSong, cached |-> NoRet]]
    /\ worker = InitWorker(0)
    /\ time = 0
    /\ out = <<>>
    /\ cmd = Cmd("none", NoItem, "none")
    /\ sent = [last |-> NoInstant, prev |-> NoInstant]
    /\ subs = InitChannel
    /\ mailbox = <<>>
    /\ bus = InitBus

NextStartup == Lookup \/ Store \/ Restart

SpecStartup == InitStartup /\ [][NextStartup]_vars

\* the access order is ascending in the timestamps of the index
Sorted(order, es) ==
    \A i, j \in 1..Len(order) :
        i < j => SortKey(es, order[i]) <= SortKey(es, order[j])

\* C32: right after startup recovery the index has at most max_entries
\* entries and its access order is ascending in the recovered timestamps.
C32_StartupCapacity ==
    last.op = "new" =>
        /\ Cardinality(DOMAIN entries) <= max_entries
        /\ Sorted(access_order, entries)

----------------------------------------------------------------------------
(* play_song from the cache block to its return (SpecRequest) *)

\* a cached_url that is a file locator whatever the cache answered
cached_url_always_file(cached) == "file://"
\* cached_url (commands.rs lines 578-607): the locator of the cached file when
\* the lookup or the store returned a path, the stream URL otherwise
cached_url(cached) ==
    IF cached.tag \in {"Some", "Ok"} THEN "file://" ELSE "http://"

\* get_item_details and the QueueItem built from it (lines 610-647); an error
\* of get_item_details is returned to the caller
Details(t) ==
    /\ pc[t] = "resolved"
    /\ \E found \in BOOLEAN :
         IF found
         THEN /\ cmd' = Cmd("QueueItem",
                            [id |-> req[t].item_id,
                             duration_ticks |-> RuntimeTicks(req[t].item_id),
                             stream_url |-> cached_url(req[t].cached)],
                            "none")
              /\ pc' = [pc EXCEPT ![t] = "play"]
              /\ last' = Op("details", req[t].item_id, NoRet, <<>>)
         ELSE /\ cmd' = Cmd("none", NoItem, "none")
              /\ pc' = [pc EXCEPT ![t] = "idle"]
              /\ last' = Op("play_song", req[t].item_id,
                            [tag |-> "Err", path |-> NoPath], <<>>)
    /\ UNCHANGED <<files, entries, access_order, now, loaded, lock, req,
                   worker, time, out, sent, subs, busVars>>

\* audio_player.play_item(queue_item).await (line 657) and the decision to
\* retry (line 664)
Play(t) ==
    /\ pc[t] = "play"
    /\ \E world \in PlayWorlds :
         LET r == play_item(worker, cmd.item, world, time)
             again == r.result = "Err" /\ cmd.item.stream_url # "http://"
         IN  /\ worker' = r.w
             /\ out' = r.events \o <<Reply(r.result)>>
             /\ cmd' = Cmd("PlayItem", cmd.item, r.result)
             /\ Broadcast
             /\ pc' = [pc EXCEPT ![t] = IF again THEN "retry" ELSE "idle"]
             /\ last' = IF again THEN Op("play_item", req[t].item_id, NoRet, <<>>)
                        ELSE Op("play_song", req[t].item_id,
                                [tag |-> r.result, path |-> NoPath], <<>>)
    /\ UNCHANGED <<files, entries, access_order, now, loaded, lock, req,
                   time, busVars>>

\* the second play_item, with the stream URL (lines 667-685)
Retry(t) ==
    /\ pc[t] = "retry"
    /\ \E world \in PlayWorlds :
         LET item == [cmd.item EXCEPT !.stream_url = "http://"]
             r    == play_item(worker, item, world, time)
         IN  /\ worker' = r.w
             /\ out' = r.events \o <<Reply(r.result)>>
             /\ cmd' = Cmd("PlayItem", item, r.result)
             /\ Broadcast
             /\ last' = Op("play_song", req[t].item_id,
                           [tag |-> r.result, path |-> NoPath], <<>>)
    /\ pc' = [pc EXCEPT ![t] = "idle"]
    /\ UNCHANGED <<files, entries, access_order, now, loaded, lock, req,
                   time, busVars>>

\* one request at a time
NextRequest ==
    \/ Call("t1")
    \/ AcquireLookup("t1")
    \/ DoLookup("t1")
    \/ AcquireStore("t1")
    \/ StoreBegin("t1")
    \/ StoreEnd("t1")
    \/ Details("t1")
    \/ Play("t1")
    \/ Retry("t1")

SpecRequest == Init /\ [][NextRequest]_vars

\* C31: when the lookup missed and the store returned an error, play_song does
\* not return there: it can go on to build the queue item; the item it builds
\* has the stream URL unless the lookup or the store returned a path, and then
\* it has the file locator; and the PlayItem that follows carries that item.
C31_StoreFailureFallsBack ==
    /\ []((pc["t1"] = "resolved" /\ req["t1"].cached.tag = "Err") =>
            ENABLED (Details("t1") /\ pc'["t1"] = "play"))
    /\ []((pc["t1"] = "play") =>
            /\ cmd.type = "QueueItem"
            /\ cmd.item.id = req["t1"].item_id
            /\ (cmd.item.stream_url = "file://"
                  <=> req["t1"].cached.tag \in {"Some", "Ok"})
            /\ (cmd.item.stream_url = "http://"
                  <=> req["t1"].cached.tag = "Err"))
    /\ [][(pc["t1"] = "play" /\ pc'["t1"] # "play") =>
            (cmd'.type = "PlayItem" /\ cmd'.item = cmd.item)]_vars

\* the store failed and the song plays from the stream URL
C31_Witness ==
    /\ req["t1"].cached.tag = "Err"
    /\ pc["t1"] = "idle"
    /\ cmd.type = "PlayItem" /\ cmd.result = "Ok"
    /\ cmd.item.id = req["t1"].item_id
    /\ cmd.item.stream_url = "http://"
    /\ worker.state.is_playing
    /\ last = Op("play_song", req["t1"].item_id, [tag |-> "Ok", path |-> NoPath], <<>>)

====
